---- MODULE Spec2Model ----
(***************************************************************************)
(* A model of the SQL assistants of this repository.                       *)
(*                                                                         *)
(*   Spec     the rule-based "SQL Query Generator" script, sql_bot_test.py *)
(*            (selectbox + text input, generate_sql_and_examples).         *)
(*   SpecLLM  the three scripts that ask a chat model for the SQL and read *)
(*            its completion: sql_llm_bot_test.py,                         *)
(*            cohortBuilder_llm_bot_test.py, cohortbuilderandsqlassitant.py*)
(*   SpecPure the schema lookup and summarize_table_configs of the         *)
(*            assistant, applied by themselves to inputs of every kind.    *)
(*   SpecApp  a session of cohortbuilderandsqlassitant.py: login page,     *)
(*            logout, the widgets of the two tabs, one script run after    *)
(*            another, with what each run logs and calls.                  *)
(*                                                                         *)
(* Python strings are TLA+ strings; their characters are read with SubSeq. *)
(* Two characters of the source cannot be written in a TLA+ string literal *)
(* and are transliterated: the typographic apostrophe U+2019 of the        *)
(* sentinel comment is written ', and the backtick of a markdown fence is  *)
(* written ~ .                                                             *)
(***************************************************************************)
EXTENDS Integers, Sequences, FiniteSets, TLC

VARIABLES
    query_choice,    \* sql_bot_test.py: value of the selectbox ("" = none)
    custom_request,  \* sql_bot_test.py: value of the text input
    typed,           \* number of fragments typed into the text input (bookkeeping)
    user_request,    \* sql_bot_test.py: the request the last script run used
    request,         \* generate_sql_and_examples: its local `request` after line 44
    result,          \* sql_bot_test.py: the bundle the last script run rendered
    variant,         \* which of the four scripts is running
    pc,              \* LLM variants: "idle", "calling" (in the chat completion) or "done"
    completion,      \* LLM variants: message.content of the completion, in segments
    content,         \* LLM variants: the local `content`, message.content stripped
    llm_result,      \* LLM variants: what parsing `content` came to
    shown,           \* LLM variants: what the run left on the page
    logged_in,       \* assistant: st.session_state.logged_in
    username,        \* assistant: st.session_state.username
    logged_once,     \* assistant: st.session_state._logged_once
    login_user,      \* assistant: text input "Username" of the login page
    login_pwd,       \* assistant: text input "Password" of the login page
    schema_choice,   \* assistant: the radio "Data model"
    table_configs,   \* assistant: the selected tables with their columns and filters
    user_question,   \* assistant: text input of the Open Question tab
    interaction,     \* assistant: what the user did last
    trace,           \* assistant: what the last interaction sent to the sheets and to OpenAI
    tab1,            \* assistant: what the last run left in the Cohort Builder tab
    tab2,            \* assistant: what the last run left in the Open Question tab
    call             \* a function of the assistant applied by itself: name, argument, outcome

script_vars == <<query_choice, custom_request, typed, user_request, request, result>>

llm_vars == <<variant, pc, completion, content, llm_result, shown>>

app_vars == <<logged_in, username, logged_once, login_user, login_pwd, schema_choice,
              table_configs, user_question, interaction, trace, tab1, tab2>>

vars == <<script_vars, llm_vars, app_vars, call>>

\* The longest text the user types, in fragments.
MaxFrags == 2

(***************************************************************************)
(* Python str operations.                                                  *)
(***************************************************************************)
UpperAlpha == "ABCDEFGHIJKLMNOPQRSTUVWXYZ"
LowerAlpha == "abcdefghijklmnopqrstuvwxyz"

CharAt(s, i) == SubSeq(s, i, i)

\* str.lower() on one character (ASCII letters; every other character is kept).
LowerChar(c) ==
    IF \E i \in 1..Len(UpperAlpha) : CharAt(UpperAlpha, i) = c
    THEN CharAt(LowerAlpha, CHOOSE i \in 1..Len(UpperAlpha) : CharAt(UpperAlpha, i) = c)
    ELSE c

\* str.lower(): every character lower-cased, the halves of the string one
\* after the other.
RECURSIVE lower(_)
lower(s) ==
    IF Len(s) = 0 THEN ""
    ELSE IF Len(s) = 1 THEN LowerChar(s)
    ELSE lower(SubSeq(s, 1, Len(s) \div 2)) \o lower(SubSeq(s, Len(s) \div 2 + 1, Len(s)))

\* Python's `needle in hay` on strings.
Contains(hay, needle) ==
    \E i \in 1..(Len(hay) - Len(needle) + 1) :
        SubSeq(hay, i, i + Len(needle) - 1) = needle

\* The whitespace str.strip() and the regex class \s remove.
IsSpace(c) == c \in {" ", "\t", "\n", "\r"}

\* str.strip()
strip(s) ==
    LET solid == {i \in 1..Len(s) : ~IsSpace(CharAt(s, i))}
        first == CHOOSE i \in solid : \A j \in solid : i <= j
        last  == CHOOSE i \in solid : \A j \in solid : j <= i
    IN  IF solid = {} THEN "" ELSE SubSeq(s, first, last)

\* str.startswith
StartsWith(s, prefix) ==
    /\ Len(s) >= Len(prefix)
    /\ SubSeq(s, 1, Len(prefix)) = prefix

(***************************************************************************)
(* pandas DataFrames: the column names, the index labels and the rows.     *)
(***************************************************************************)
DataFrame(columns, rows) ==
    [columns |-> columns,
     index   |-> [i \in 1..Len(rows) |-> i - 1],
     data    |-> rows]

EmptyDataFrame == [columns |-> <<>>, index |-> <<>>, data |-> <<>>]

\* The rows of df at the positions pos (a sequence), each with its index label.
Take(df, pos) ==
    [columns |-> df.columns,
     index   |-> [k \in 1..Len(pos) |-> df.index[pos[k]]],
     data    |-> [k \in 1..Len(pos) |-> df.data[pos[k]]]]

\* df[name]: the values of a column, row by row.
Column(df, name) ==
    LET j == CHOOSE j \in 1..Len(df.columns) : df.columns[j] = name
    IN  [i \in 1..Len(df.data) |-> df.data[i][j]]

\* df[mask]: the rows whose entry of the boolean mask is true, in order.
Where(df, mask) ==
    Take(df, SelectSeq([i \in 1..Len(df.data) |-> i], LAMBDA i : mask[i]))

Least(S) == CHOOSE n \in S : \A m \in S : n <= m

\* A function over a finite set, enumerated once and then looked up.
Tabulated(f) == IF f = f THEN f ELSE f

\* The outcomes of DataFrame.sample(frac=1) on n rows: every order of the rows.
Shuffles(n) == {p \in [1..n -> 1..n] : \A i, j \in 1..n : p[i] = p[j] => i = j}

(***************************************************************************)
(* sql_bot_test.py: the preset menu.                                       *)
(***************************************************************************)
common_queries == <<
    "Determine the number of patients in the project",
    "View the data on the first 100 patients",
    "View the first 100 observations about the patients",
    "Select patients with age at diagnosis between X and Y",
    "Given the birthdate and diagnosis date, create a new table with patient, diagnosis and age at diagnosis",
    "Create a subset of the patient_dimension table for patients with specific demographic characteristics and conditions",
    "Select medications (concept_cd like RXNORM) for a subset of patients",
    "Select diagnosis (concept_cd like ICD) for a subset of patients",
    "Select labs (concept_cd like LOINC) for a subset of patients",
    "Get a list of concepts and the number of patients with that code",
    "Save the results to a temp table",
    "Drop the temp table since we no longer need it",
    "View the top 100 concepts by number of patients",
    "Create a pivot with one row per patient and features in columns",
    "Select a random 1000 patients",
    "Create a primary key to speed up queries",
    "Determine the total number of visits for the sample" >>

(***************************************************************************)
(* generate_sql_and_examples: the example tables.                          *)
(***************************************************************************)
dummy_patients ==
    DataFrame(<<"patient_num", "birth_date", "sex_cd", "race_cd">>,
              << <<1, "1980-01-01", "M", "WHITE">>,
                 <<2, "1990-05-20", "F", "BLACK">>,
                 <<3, "1975-07-15", "M", "ASIAN">> >>)

dummy_obs ==
    DataFrame(<<"patient_num", "encounter_num", "concept_cd", "start_date">>,
              << <<1, 101, "ICD9_250", "2020-01-01">>,
                 <<2, 102, "ICD9_401", "2021-06-01">>,
                 <<1, 103, "RXNORM_12345", "2019-12-15">> >>)

dummy_visits ==
    DataFrame(<<"encounter_num", "patient_num", "start_date">>,
              << <<101, 1, "2020-01-01">>,
                 <<102, 2, "2021-06-01">>,
                 <<103, 1, "2019-12-15">> >>)

(***************************************************************************)
(* generate_sql_and_examples: the SQL templates, one per branch.           *)
(***************************************************************************)
SQL_PATIENT_COUNT ==
    "\nSELECT COUNT(DISTINCT patient_num) AS patient_count\nFROM patient_dimension;\n"

SQL_FIRST_PATIENTS == "\nSELECT *\nFROM patient_dimension\nLIMIT 100;\n"

SQL_FIRST_OBSERVATIONS == "\nSELECT *\nFROM observation_fact\nLIMIT 100;\n"

SQL_AGE_BETWEEN ==
    "\nSELECT p.patient_num, TIMESTAMPDIFF(YEAR, p.birth_date, o.start_date) AS age_at_diagnosis\nFROM patient_dimension p\nJOIN observation_fact o ON p.patient_num = o.patient_num\nWHERE TIMESTAMPDIFF(YEAR, p.birth_date, o.start_date) BETWEEN X AND Y;\n"

SQL_NEW_TABLE ==
    "\nCREATE TABLE patient_diagnosis_age AS\nSELECT p.patient_num, o.concept_cd, TIMESTAMPDIFF(YEAR, p.birth_date, o.start_date) AS age_at_diagnosis\nFROM patient_dimension p\nJOIN observation_fact o ON p.patient_num = o.patient_num;\n"

SQL_SUBSET ==
    "\nSELECT p.*\nFROM patient_dimension p\nJOIN observation_fact o ON p.patient_num = o.patient_num\nWHERE p.sex_cd = 'M' AND p.race_cd = 'WHITE' AND o.concept_cd = 'YOUR_CONDITION';\n"

SQL_MEDICATIONS == "\nSELECT *\nFROM observation_fact\nWHERE concept_cd LIKE 'RXNORM%';\n"

SQL_DIAGNOSIS == "\nSELECT *\nFROM observation_fact\nWHERE concept_cd LIKE 'ICD%';\n"

SQL_LABS == "\nSELECT *\nFROM observation_fact\nWHERE concept_cd LIKE 'LOINC%';\n"

SQL_CONCEPT_COUNTS ==
    "\nSELECT concept_cd, COUNT(DISTINCT patient_num) AS patient_count\nFROM observation_fact\nGROUP BY concept_cd;\n"

SQL_TOTAL_VISITS == "\nSELECT COUNT(*) AS total_visits\nFROM visit_dimension;\n"

SQL_RANDOM_PATIENTS == "\nSELECT *\nFROM patient_dimension\nORDER BY RAND()\nLIMIT 1000;\n"

SQL_UNRECOGNIZED == "-- Sorry, I don't recognize this request yet."

\* A returned dict.
Bundle(sql, input_dfs, output_df) ==
    [sql |-> sql, input_dfs |-> input_dfs, output_df |-> output_df]

\* Python's None: what a function returns when it falls off its end, and the
\* value of `result` in a run that never assigned it.
None == [none |-> TRUE]

(***************************************************************************)
(* generate_sql_and_examples: the conditions of its `if` statements, on    *)
(* the lower-cased request.                                                *)
(***************************************************************************)
if_number_of_patients(req) == Contains(req, "number of patients")

if_first_100_patients(req) == Contains(req, "first 100 patients")

if_first_100_observations(req) == Contains(req, "first 100 observations")

\* Mutant: the second test of line 104 dropped.
if_age_at_diagnosis_alone(req) == Contains(req, "age at diagnosis")

if_age_at_diagnosis_between(req) ==
    Contains(req, "age at diagnosis") /\ Contains(req, "between")

if_create_a_new_table(req) == Contains(req, "create a new table with patient")

if_subset_of_patient_dimension(req) == Contains(req, "subset of the patient_dimension")

\* Mutant: "medications" giving way to "diagnosis".
if_medications_without_diagnosis(req) ==
    Contains(req, "medications") /\ ~Contains(req, "diagnosis")

if_medications(req) == Contains(req, "medications")

if_diagnosis(req) == Contains(req, "diagnosis")

if_labs(req) == Contains(req, "labs")

if_list_of_concepts(req) == Contains(req, "list of concepts")

if_total_number_of_visits(req) == Contains(req, "total number of visits")

if_random_1000_patients(req) == Contains(req, "random 1000 patients")

\* Mutant: sample(replace=True), a row drawn twice.
sample_with_replacement(df, shuffle) == Take(df, <<shuffle[1], shuffle[1], shuffle[2]>>)

\* dummy_patients.sample(frac=1): the rows of df in the order drawn.
sample(df, shuffle) == Take(df, shuffle)

\* Mutant: the last return missing, the function falling off its end.
unrecognized_not_returned == None

\* Mutant: the sentinel carrying example tables.
unrecognized_with_examples ==
    Bundle(SQL_UNRECOGNIZED, "patient_dimension" :> dummy_patients, dummy_patients)

\* The last return: no `if` matched.
unrecognized == Bundle(SQL_UNRECOGNIZED, <<>>, EmptyDataFrame)

\* Mutant: the request stripped as well as lower-cased.
normalize_and_strip(raw) == strip(lower(raw))

\* request = request.lower()
normalize(raw) == lower(raw)

(***************************************************************************)
(* generate_sql_and_examples, lines 46 to 255: the `if` statements in      *)
(* order, each returning its bundle.  shuffle is the order that sample()   *)
(* draws, a permutation of the three rows of dummy_patients; only the last *)
(* `if` reads it.                                                          *)
(***************************************************************************)
first_return(req, shuffle) ==
    IF if_number_of_patients(req) THEN
        Bundle(SQL_PATIENT_COUNT,
               "patient_dimension" :> dummy_patients,
               DataFrame(<<"patient_count">>, << <<3>> >>))
    ELSE IF if_first_100_patients(req) THEN
        Bundle(SQL_FIRST_PATIENTS,
               "patient_dimension" :> dummy_patients,
               dummy_patients)
    ELSE IF if_first_100_observations(req) THEN
        Bundle(SQL_FIRST_OBSERVATIONS,
               "observation_fact" :> dummy_obs,
               dummy_obs)
    ELSE IF if_age_at_diagnosis_between(req) THEN
        Bundle(SQL_AGE_BETWEEN,
               ("patient_dimension" :> dummy_patients) @@ ("observation_fact" :> dummy_obs),
               DataFrame(<<"patient_num", "age_at_diagnosis">>, << <<1, 40>>, <<2, 30>> >>))
    ELSE IF if_create_a_new_table(req) THEN
        Bundle(SQL_NEW_TABLE,
               ("patient_dimension" :> dummy_patients) @@ ("observation_fact" :> dummy_obs),
               DataFrame(<<"patient_num", "concept_cd", "age_at_diagnosis">>,
                         << <<1, "ICD9_250", 40>>, <<2, "ICD9_401", 30>> >>))
    ELSE IF if_subset_of_patient_dimension(req) THEN
        Bundle(SQL_SUBSET,
               ("patient_dimension" :> dummy_patients) @@ ("observation_fact" :> dummy_obs),
               Where(dummy_patients,
                     [i \in 1..Len(dummy_patients.data) |->
                         /\ Column(dummy_patients, "sex_cd")[i] = "M"
                         /\ Column(dummy_patients, "race_cd")[i] = "WHITE"]))
    ELSE IF if_medications(req) THEN
        Bundle(SQL_MEDICATIONS,
               "observation_fact" :> dummy_obs,
               Where(dummy_obs,
                     [i \in 1..Len(dummy_obs.data) |->
                         StartsWith(Column(dummy_obs, "concept_cd")[i], "RXNORM")]))
    ELSE IF if_diagnosis(req) THEN
        Bundle(SQL_DIAGNOSIS,
               "observation_fact" :> dummy_obs,
               Where(dummy_obs,
                     [i \in 1..Len(dummy_obs.data) |->
                         StartsWith(Column(dummy_obs, "concept_cd")[i], "ICD")]))
    ELSE IF if_labs(req) THEN
        LET labs == DataFrame(<<"patient_num", "encounter_num", "concept_cd", "start_date">>,
                              << <<3, 104, "LOINC_789", "2022-03-15">> >>)
        IN  Bundle(SQL_LABS, "observation_fact" :> labs, labs)
    ELSE IF if_list_of_concepts(req) THEN
        Bundle(SQL_CONCEPT_COUNTS,
               "observation_fact" :> dummy_obs,
               DataFrame(<<"concept_cd", "patient_count">>,
                         << <<"ICD9_250", 1>>, <<"ICD9_401", 1>>, <<"RXNORM_12345", 1>> >>))
    ELSE IF if_total_number_of_visits(req) THEN
        Bundle(SQL_TOTAL_VISITS,
               "visit_dimension" :> dummy_visits,
               DataFrame(<<"total_visits">>, << <<3>> >>))
    ELSE IF if_random_1000_patients(req) THEN
        Bundle(SQL_RANDOM_PATIENTS,
               "patient_dimension" :> dummy_patients,
               sample(dummy_patients, shuffle))
    ELSE
        unrecognized

\* Mutant: the request echoed into the SQL as a trailing comment.
generate_echoing_request(raw, shuffle) ==
    LET b == first_return(normalize(raw), shuffle)
    IN  [b EXCEPT !.sql = b.sql \o "-- " \o raw]

generate_sql_and_examples(raw, shuffle) == first_return(normalize(raw), shuffle)

(***************************************************************************)
(* The requests of the model: a preset of the menu, or a text typed as at  *)
(* most MaxFrags fragments.                                                *)
(***************************************************************************)
Fragments ==
    { "number of patients", "age at diagnosis", " between ", "medications",
      "diagnosis", "list of concepts", "total number of visits",
      "random 1000 patients", "pivot", "banana", "LABS", "  SELECT Patients  " }

RECURSIVE Typed(_)
Typed(k) ==
    IF k = 0 THEN {""}
    ELSE LET shorter == Typed(k - 1)
         IN  shorter \cup {t \o f : t \in shorter, f \in Fragments}

Presets == {common_queries[i] : i \in 1..Len(common_queries)}

Requests == Typed(MaxFrags) \cup Presets

\* generate_sql_and_examples on every request of the model and every draw of
\* sample(), evaluated once.
Calls ==
    Tabulated([r \in Requests |->
        Tabulated([p \in Shuffles(Len(dummy_patients.data)) |->
            [request |-> normalize(r), ret |-> generate_sql_and_examples(r, p)]])])

(***************************************************************************)
(* One run of the script sql_bot_test.py, top to bottom, with the widgets  *)
(* holding choice and custom.                                              *)
(***************************************************************************)
ScriptRun(choice, custom) ==
    LET ur == IF choice # "" THEN choice ELSE custom IN
    /\ user_request' = ur
    /\ IF ur # ""
       THEN \E p \in Shuffles(Len(dummy_patients.data)) :
                /\ request' = Calls[ur][p].request
                /\ result' = Calls[ur][p].ret
       ELSE /\ request' = ""
            /\ result' = None
    /\ UNCHANGED <<llm_vars, app_vars, call>>

\* The user picks an entry of the selectbox, "" being its empty first entry.
SelectQuery ==
    \E q \in {""} \cup Presets :
        /\ q # query_choice
        /\ query_choice' = q
        /\ UNCHANGED <<custom_request, typed>>
        /\ ScriptRun(q, custom_request)

\* The user adds a fragment to the text input and submits it.
TypeRequest ==
    \E f \in Fragments :
        /\ typed < MaxFrags
        /\ custom_request' = custom_request \o f
        /\ typed' = typed + 1
        /\ UNCHANGED query_choice
        /\ ScriptRun(query_choice, custom_request \o f)

\* The user empties the text input.
ClearRequest ==
    /\ custom_request # ""
    /\ custom_request' = ""
    /\ typed' = 0
    /\ UNCHANGED query_choice
    /\ ScriptRun(query_choice, "")

\* Streamlit runs the script again with the widgets as they are.
Rerun ==
    /\ UNCHANGED <<query_choice, custom_request, typed>>
    /\ ScriptRun(query_choice, custom_request)

\* No completion asked for, nothing parsed, nothing on the page.
Nothing == [status |-> "nothing"]

ScriptInit ==
    /\ query_choice = ""
    /\ custom_request = ""
    /\ typed = 0
    /\ user_request = ""
    /\ request = ""
    /\ result = None

LLMIdle ==
    /\ pc = "idle"
    /\ completion = <<>>
    /\ content = ""
    /\ llm_result = Nothing
    /\ shown = Nothing

\* The assistant before its first script run of a session.
AppFresh ==
    /\ logged_in = FALSE
    /\ username = ""
    /\ logged_once = {}
    /\ login_user = ""
    /\ login_pwd = ""
    /\ schema_choice = "i2b2"
    /\ table_configs = <<>>
    /\ user_question = ""
    /\ interaction = [kind |-> "none"]
    /\ trace = <<>>
    /\ tab1 = Nothing
    /\ tab2 = Nothing

NoCall == [fn |-> "none"]

Init ==
    /\ variant = "rule_based"
    /\ ScriptInit
    /\ LLMIdle
    /\ AppFresh
    /\ call = NoCall

Next == SelectQuery \/ TypeRequest \/ ClearRequest \/ Rerun

Spec == Init /\ [][Next]_vars

(***************************************************************************)
(* The reference rule set of the specification (section 4.3): rule n is a  *)
(* set of alternatives, each a set of substrings that must all occur in    *)
(* the normalized request.  Rule 18 is the fallback.                       *)
(***************************************************************************)
RefRules == <<
    {{"number of patients"}},
    {{"first 100 patients"}},
    {{"first 100 observations"}},
    {{"age at diagnosis", "between"}},
    {{"create a new table with patient"}},
    {{"subset of the patient_dimension"}, {"subset of patient_dimension"}},
    {{"medications"}},
    {{"diagnosis"}},
    {{"labs"}},
    {{"list of concepts", "number of patients"}},
    {{"save the results to a temp table"}, {"save results to a temp table"}},
    {{"drop the temp table"}},
    {{"top 100 concepts"}},
    {{"pivot"}},
    {{"random 1000 patients"}},
    {{"create a primary key"}},
    {{"total number of visits"}} >>

Fallback == Len(RefRules) + 1

Phrases == UNION {UNION RefRules[n] : n \in 1..Len(RefRules)}

\* The phrases each request of the model contains, once lower-cased.
Mentions == Tabulated([r \in Requests |-> {s \in Phrases : Contains(lower(r), s)}])

\* The reference rules a request satisfies, and the first of them.
RefHits(r) == {n \in 1..Len(RefRules) : \E alt \in RefRules[n] : alt \subseteq Mentions[r]}

RefFirst(r) == IF RefHits(r) = {} THEN Fallback ELSE Least(RefHits(r))

\* The reference rule set with rule 10 asking for "list of concepts" alone.
RelaxedHits(r) == RefHits(r) \cup (IF "list of concepts" \in Mentions[r] THEN {10} ELSE {})

\* The SQL template the source holds for a reference rule; rules 11, 12, 13,
\* 14 and 16 have none.
TemplateOf ==
    (1 :> SQL_PATIENT_COUNT) @@ (2 :> SQL_FIRST_PATIENTS) @@ (3 :> SQL_FIRST_OBSERVATIONS)
    @@ (4 :> SQL_AGE_BETWEEN) @@ (5 :> SQL_NEW_TABLE) @@ (6 :> SQL_SUBSET)
    @@ (7 :> SQL_MEDICATIONS) @@ (8 :> SQL_DIAGNOSIS) @@ (9 :> SQL_LABS)
    @@ (10 :> SQL_CONCEPT_COUNTS) @@ (15 :> SQL_RANDOM_PATIENTS) @@ (17 :> SQL_TOTAL_VISITS)
    @@ (Fallback :> SQL_UNRECOGNIZED)

Templates == {TemplateOf[n] : n \in DOMAIN TemplateOf}

\* b is the bundle of reference rule n: not the sentinel, the rule's template
\* where the source holds one, and no other rule's template.
IsBundleOf(n, b) ==
    /\ b.sql # SQL_UNRECOGNIZED
    /\ n \in DOMAIN TemplateOf => b.sql = TemplateOf[n]
    /\ n \notin DOMAIN TemplateOf => b.sql \notin Templates

IsSentinel(b) ==
    /\ b.sql = SQL_UNRECOGNIZED
    /\ DOMAIN b.input_dfs = {}
    /\ Len(b.output_df.data) = 0
    /\ Len(b.output_df.columns) = 0

\* The rules in the order the source tests them, and the rule a request
\* resolves to: the first whose substrings it contains.
SourceOrder == <<1, 2, 3, 4, 5, 6, 7, 8, 9, 10, 17, 15>>

SourceMatches(n, r) ==
    IF n = 10 THEN "list of concepts" \in Mentions[r]
    ELSE IF n = 6 THEN "subset of the patient_dimension" \in Mentions[r]
    ELSE \E alt \in RefRules[n] : alt \subseteq Mentions[r]

ResolvedFrom(k, r) ==
    LET hits == {i \in k..Len(SourceOrder) : SourceMatches(SourceOrder[i], r)}
    IN  IF hits = {} THEN Fallback ELSE SourceOrder[Least(hits)]

Resolved(r) == ResolvedFrom(1, r)

Dispatched == user_request # ""

IsDataFrame(df) ==
    /\ DOMAIN df = {"columns", "index", "data"}
    /\ Len(df.index) = Len(df.data)
    /\ \A i \in 1..Len(df.data) : Len(df.data[i]) = Len(df.columns)

IsBundle(b) ==
    /\ DOMAIN b = {"sql", "input_dfs", "output_df"}
    /\ b.sql \in STRING
    /\ \A t \in DOMAIN b.input_dfs : t \in STRING /\ IsDataFrame(b.input_dfs[t])
    /\ IsDataFrame(b.output_df)

(***************************************************************************)
(* C1.  generate_sql_and_examples is total: every request, the empty       *)
(* string included, gets a bundle with an 'sql' text, an 'input_dfs'       *)
(* mapping of tables and an 'output_df' table.  The script calls it on     *)
(* user_request; the text input may hold the empty string, on which the    *)
(* function is evaluated here as well.                                     *)
(***************************************************************************)
C1_DispatchTotal ==
    /\ Dispatched => IsBundle(result)
    /\ \A p \in DOMAIN Calls[custom_request] : IsBundle(Calls[custom_request][p].ret)

C1_Witness ==
    /\ Dispatched
    /\ custom_request = ""
    /\ IsBundle(result)
    /\ result.sql = SQL_UNRECOGNIZED

(***************************************************************************)
(* C2.  Overlapping triggers resolve in the reference priority order: a    *)
(* request satisfying two or more reference rules returns the bundle of    *)
(* the first of them in the reference order.                               *)
(***************************************************************************)
C2_ReferencePriority ==
    (Dispatched /\ Cardinality(RefHits(user_request)) >= 2)
        => IsBundleOf(RefFirst(user_request), result)

(***************************************************************************)
(* C3.  Each of the 17 non-fallback reference rules answers with its own   *)
(* bundle: a request whose first satisfied reference rule is n returns the *)
(* bundle of n, never the sentinel.                                        *)
(***************************************************************************)
C3_EveryRuleHasItsBundle ==
    (Dispatched /\ RefHits(user_request) # {})
        => IsBundleOf(RefFirst(user_request), result)

(***************************************************************************)
(* C4.  Fallback.  As claimed: a request satisfying none of the 17         *)
(* reference rules (rule 10 asking for both of its phrases) returns the    *)
(* sentinel with no example tables.                                        *)
(***************************************************************************)
C4_FallbackAsClaimed ==
    (Dispatched /\ RefHits(user_request) = {}) => IsSentinel(result)

\* C4, amended: the same with rule 10 asking for "list of concepts" alone.
C4_Fallback ==
    (Dispatched /\ RelaxedHits(user_request) = {}) => IsSentinel(result)

C4_Witness ==
    /\ user_request = "banana"
    /\ IsSentinel(result)

(***************************************************************************)
(* C5.  A request with both "age at diagnosis" and "between", and no       *)
(* trigger of rules 1 to 3, returns the age-range bundle; with only one of *)
(* the two, rule 4 does not match and the request resolves to the first    *)
(* later rule it satisfies, so "age at diagnosis" alone with no trigger of *)
(* rules 5 to 7 returns the "diagnosis" bundle.                            *)
(***************************************************************************)
C5_AgeAtDiagnosisBetween ==
    Dispatched =>
        LET m     == Mentions[user_request]
            early == RefHits(user_request) \cap {1, 2, 3}
            age   == "age at diagnosis" \in m
            btw   == "between" \in m
        IN  /\ (early = {} /\ age /\ btw) =>
                /\ result.sql = SQL_AGE_BETWEEN
                /\ result.output_df.columns = <<"patient_num", "age_at_diagnosis">>
            /\ (early = {} /\ (age # btw)) =>
                /\ result.sql # SQL_AGE_BETWEEN
                /\ result.sql = TemplateOf[ResolvedFrom(5, user_request)]
            /\ (early = {} /\ age /\ ~btw /\ RefHits(user_request) \cap {5, 6, 7} = {}) =>
                result.sql = SQL_DIAGNOSIS

C5_Witness ==
    /\ user_request = "age at diagnosis between "
    /\ result.sql = SQL_AGE_BETWEEN

(***************************************************************************)
(* C6.  A request with both "medications" and "diagnosis" and no trigger   *)
(* of rules 1 to 6 returns the RXNORM bundle, never the ICD bundle.        *)
(***************************************************************************)
C6_MedicationsBeforeDiagnosis ==
    LET m == Mentions[user_request] IN
    (/\ Dispatched
     /\ "medications" \in m
     /\ "diagnosis" \in m
     /\ RefHits(user_request) \cap (1..6) = {})
        => /\ result.sql = SQL_MEDICATIONS
           /\ result.sql # SQL_DIAGNOSIS
           /\ \A i \in 1..Len(result.output_df.data) :
                  StartsWith(Column(result.output_df, "concept_cd")[i], "RXNORM")

C6_Witness ==
    /\ user_request = "diagnosismedications"
    /\ result.sql = SQL_MEDICATIONS

(***************************************************************************)
(* C7.  The SQL is a function of the rule the request resolves to and of   *)
(* nothing else: it is the static template of that rule, one of a fixed    *)
(* finite set, so two requests resolving to the same rule get the same     *)
(* text and no request text reaches the SQL.                               *)
(***************************************************************************)
C7_SqlIsStaticTemplate ==
    Dispatched =>
        /\ result.sql \in Templates
        /\ result.sql = TemplateOf[Resolved(user_request)]

C7_Witness ==
    /\ Dispatched
    /\ user_request # lower(user_request)
    /\ Contains(user_request, "X and Y")
    /\ result.sql = SQL_AGE_BETWEEN

(***************************************************************************)
(* C8.  The example tables are a function of the matched rule.  As         *)
(* claimed: two script runs whose requests resolve to the same rule return *)
(* the same input tables and the same output table, rows in the same       *)
(* order, the "random 1000 patients" rule included.                        *)
(***************************************************************************)
SameRule == Dispatched /\ user_request' # "" /\ Resolved(user_request) = Resolved(user_request')

C8_ExamplesAsClaimed ==
    [][SameRule => /\ result'.input_dfs = result.input_dfs
                   /\ result'.output_df = result.output_df]_vars

\* b holds the rows of a, each with its index label, in some order.
SameRows(a, b) ==
    /\ a.columns = b.columns
    /\ Len(a.data) = Len(b.data)
    /\ \E p \in Shuffles(Len(a.data)) : b = Take(a, p)

\* C8, amended: so it is for every rule but "random 1000 patients", whose
\* two runs return the same input tables and the same three patient rows in
\* an order that may differ from run to run.
C8_Examples ==
    [][SameRule => /\ result'.input_dfs = result.input_dfs
                   /\ Resolved(user_request) # 15 => result'.output_df = result.output_df
                   /\ Resolved(user_request) = 15 =>
                          /\ SameRows(dummy_patients, result'.output_df)
                          /\ SameRows(result.output_df, result'.output_df)]_vars

C8_Witness ==
    /\ Dispatched
    /\ Resolved(user_request) = 15
    /\ result.output_df # dummy_patients
    /\ SameRows(dummy_patients, result.output_df)

(***************************************************************************)
(* C9.  Normalization.  As claimed: the normalized request is the raw      *)
(* request lower-cased and stripped of leading and trailing whitespace.    *)
(***************************************************************************)
C9_NormalizeAsClaimed == Dispatched => request = strip(lower(user_request))

Chars(s) == [i \in 1..Len(s) |-> CharAt(s, i)]

Folded == Tabulated([r \in Requests |-> [i \in 1..Len(r) |-> LowerChar(CharAt(r, i))]])

\* C9, amended: the normalized request is the raw request with every letter
\* lower-cased and nothing else changed: it has the same length, and the
\* whitespace around it is kept.
C9_Normalize == Dispatched => Chars(request) = Folded[user_request]

C9_Witness ==
    /\ user_request = "  SELECT Patients  "
    /\ request = "  select patients  "
    /\ request # strip(request)

(***************************************************************************)
(* The LLM variants: sql_llm_bot_test.py, cohortBuilder_llm_bot_test.py    *)
(* and cohortbuilderandsqlassitant.py read the text of a chat completion.  *)
(*                                                                         *)
(* re.search(r"~~~json\s*(\{.*?\})\s*~~~", content, re.DOTALL), the fence  *)
(* written with ~ for the backtick.                                        *)
(***************************************************************************)
FENCE_JSON == "~~~json"
FENCE == "~~~"

At(s, i, t) == i >= 1 /\ i + Len(t) - 1 <= Len(s) /\ SubSeq(s, i, i + Len(t) - 1) = t

\* \s* from position i: the first position at or after i that holds no
\* whitespace, Len(s) + 1 when there is none.
RECURSIVE SkipSpaces(_, _)
SkipSpaces(s, i) ==
    IF i <= Len(s) /\ IsSpace(CharAt(s, i)) THEN SkipSpaces(s, i + 1) ELSE i

NoSpan == [found |-> FALSE, group1 |-> ""]

\* (\{.*?\})\s*~~~ with its "{" at position open: the shortest span that ends
\* in a "}" which whitespace and a fence follow.
Closes(s, open) ==
    {j \in (open + 1)..Len(s) : CharAt(s, j) = "}" /\ At(s, SkipSpaces(s, j + 1), FENCE)}

MatchSpan(s, open, closes) ==
    IF closes = {} THEN NoSpan
    ELSE [found |-> TRUE, group1 |-> SubSeq(s, open, Least(closes))]

\* ~~~json at position i, then \s* up to position open.
MatchOpen(s, i, open) ==
    IF At(s, i, FENCE_JSON) /\ At(s, open, "{")
    THEN MatchSpan(s, open, Closes(s, open))
    ELSE NoSpan

\* The match that starts at position i, if any; group1 is the captured span,
\* braces included.
MatchAt(s, i) == MatchOpen(s, i, SkipSpaces(s, i + Len(FENCE_JSON)))

FirstMatch(s, starts) == IF starts = {} THEN NoSpan ELSE MatchAt(s, Least(starts))

\* re.match in the place of re.search: the match at the start of s only.
re_match(s) == MatchAt(s, 1)

\* re.search: the match at the leftmost position that has one.
re_search(s) == FirstMatch(s, {i \in 1..Len(s) : MatchAt(s, i).found})

(***************************************************************************)
(* json.loads.  A parsed value is its kind and its text (the characters of *)
(* a string between its quotes, the source span of anything else); of an   *)
(* object, the keys it holds and the value under "sql" as well.  Numbers   *)
(* are integers and \u escapes are not read: the completions of the model  *)
(* hold neither.                                                           *)
(***************************************************************************)
Missing == [kind |-> "missing", text |-> ""]

JsonFail == [ok |-> FALSE, next |-> 0, kind |-> "", text |-> "", keys |-> {}, sql |-> Missing]

JsonValue(kind, text, next) ==
    [ok |-> TRUE, next |-> next, kind |-> kind, text |-> text, keys |-> {}, sql |-> Missing]

JsonObject(text, next, keys, sql) ==
    [ok |-> TRUE, next |-> next, kind |-> "object", text |-> text, keys |-> keys, sql |-> sql]

Digits == {"0", "1", "2", "3", "4", "5", "6", "7", "8", "9"}

Escapes == {"\"", "\\", "/", "b", "f", "n", "r", "t"}

\* The position of the quote that closes the string whose text starts at k;
\* 0 when a control character, a bad escape or the end of s comes first.
RECURSIVE StringEnd(_, _)
StringEnd(s, k) ==
    IF k > Len(s) THEN 0
    ELSE IF CharAt(s, k) = "\"" THEN k
    ELSE IF CharAt(s, k) = "\\"
         THEN IF k + 1 <= Len(s) /\ CharAt(s, k + 1) \in Escapes THEN StringEnd(s, k + 2) ELSE 0
    ELSE IF CharAt(s, k) \in {"\n", "\t", "\r"} THEN 0
    ELSE StringEnd(s, k + 1)

StringUpTo(s, i, j) ==
    IF j = 0 THEN JsonFail ELSE JsonValue("string", SubSeq(s, i + 1, j - 1), j + 1)

json_string(s, i) == IF At(s, i, "\"") THEN StringUpTo(s, i, StringEnd(s, i + 1)) ELSE JsonFail

\* The position after the digits that start at k.
RECURSIVE DigitsEnd(_, _)
DigitsEnd(s, k) ==
    IF k <= Len(s) /\ CharAt(s, k) \in Digits THEN DigitsEnd(s, k + 1) ELSE k

NumberUpTo(s, i, d, e) ==
    IF e > d THEN JsonValue("number", SubSeq(s, i, e - 1), e) ELSE JsonFail

NumberFrom(s, i, d) == NumberUpTo(s, i, d, IF At(s, d, "0") THEN d + 1 ELSE DigitsEnd(s, d))

json_number(s, i) == NumberFrom(s, i, IF At(s, i, "-") THEN i + 1 ELSE i)

RECURSIVE json_value(_, _), json_members(_, _, _, _, _), json_elements(_, _, _)
RECURSIVE MemberKey(_, _, _, _, _), MemberColon(_, _, _, _, _, _), MemberValue(_, _, _, _, _, _)
RECURSIVE MemberNext(_, _, _, _, _), ElementValue(_, _, _), ElementNext(_, _, _)
RECURSIVE json_object(_, _, _), json_array(_, _, _)

\* The value that starts at position i.
json_value(s, i) ==
    IF i > Len(s) THEN JsonFail
    ELSE IF At(s, i, "\"") THEN json_string(s, i)
    ELSE IF At(s, i, "{") THEN json_object(s, i, SkipSpaces(s, i + 1))
    ELSE IF At(s, i, "[") THEN json_array(s, i, SkipSpaces(s, i + 1))
    ELSE IF At(s, i, "true") THEN JsonValue("true", "true", i + 4)
    ELSE IF At(s, i, "false") THEN JsonValue("false", "false", i + 5)
    ELSE IF At(s, i, "null") THEN JsonValue("null", "null", i + 4)
    ELSE json_number(s, i)

\* The object opened at position start, k being the first position after "{"
\* that holds no whitespace.
json_object(s, start, k) ==
    IF At(s, k, "}") THEN JsonObject(SubSeq(s, start, k), k + 1, {}, Missing)
    ELSE json_members(s, start, k, {}, Missing)

json_array(s, start, k) ==
    IF At(s, k, "]") THEN JsonValue("array", SubSeq(s, start, k), k + 1)
    ELSE json_elements(s, start, k)

\* The members of the object opened at position start, from the key at k on;
\* keys and sql are those read so far.  A later key replaces an earlier one.
json_members(s, start, k, keys, sql) == MemberKey(s, start, keys, sql, json_string(s, k))

MemberKey(s, start, keys, sql, key) ==
    IF key.ok THEN MemberColon(s, start, keys, sql, key, SkipSpaces(s, key.next)) ELSE JsonFail

MemberColon(s, start, keys, sql, key, colon) ==
    IF At(s, colon, ":")
    THEN MemberValue(s, start, keys, sql, key, json_value(s, SkipSpaces(s, colon + 1)))
    ELSE JsonFail

MemberValue(s, start, keys, sql, key, val) ==
    IF val.ok
    THEN MemberNext(s, start, keys \cup {key.text},
                    IF key.text = "sql" THEN [kind |-> val.kind, text |-> val.text] ELSE sql,
                    SkipSpaces(s, val.next))
    ELSE JsonFail

MemberNext(s, start, keys, sql, after) ==
    IF At(s, after, ",") THEN json_members(s, start, SkipSpaces(s, after + 1), keys, sql)
    ELSE IF At(s, after, "}") THEN JsonObject(SubSeq(s, start, after), after + 1, keys, sql)
    ELSE JsonFail

\* The elements of the array opened at position start, from the one at k on.
json_elements(s, start, k) == ElementValue(s, start, json_value(s, k))

ElementValue(s, start, val) ==
    IF val.ok THEN ElementNext(s, start, SkipSpaces(s, val.next)) ELSE JsonFail

ElementNext(s, start, after) ==
    IF At(s, after, ",") THEN json_elements(s, start, SkipSpaces(s, after + 1))
    ELSE IF At(s, after, "]") THEN JsonValue("array", SubSeq(s, start, after), after + 1)
    ELSE JsonFail

\* A value and nothing but whitespace after it.
Document(s, val) == IF val.ok /\ SkipSpaces(s, val.next) = Len(s) + 1 THEN val ELSE JsonFail

\* json.loads(s): ok is FALSE where json.loads raises JSONDecodeError.
json_loads(s) == Document(s, json_value(s, SkipSpaces(s, 1)))

(***************************************************************************)
(* What parsing `content` came to, and what the run left on the page.      *)
(* The text of a JSONDecodeError (wording and position) is not modelled;   *)
(* U+274C, which the assistant puts before its errors, is written [x].     *)
(***************************************************************************)
Parsed(val) == [status |-> "parsed", kind |-> val.kind, keys |-> val.keys, sql |-> val.sql]

NoMatch == [status |-> "no_match", kind |-> "", keys |-> {}, sql |-> Missing]

DecodeError == [status |-> "decode_error", kind |-> "", keys |-> {}, sql |-> Missing]

Page(subheader) == [status |-> "page", banner |-> subheader, exception |-> "", detail |-> ""]

Error(banner, exception, detail) ==
    [status |-> "error", banner |-> banner, exception |-> exception, detail |-> detail]

Uncaught(exception, detail) ==
    [status |-> "uncaught", banner |-> "", exception |-> exception, detail |-> detail]

Run(c, res, page) == [content |-> c, result |-> res, shown |-> page]

\* The exception of result["sql"], "" when it raises none.
subscript_sql(res) ==
    IF res.kind # "object" THEN "TypeError"
    ELSE IF "sql" \notin res.keys THEN "KeyError"
    ELSE ""

\* json.loads of a string: the value or the JSONDecodeError.
loads(val) == IF val.ok THEN Parsed(val) ELSE DecodeError

\* json.loads of the span a match captured, if there is a match.
loads_group(m) == IF m.found THEN loads(json_loads(m.group1)) ELSE NoMatch

\* cohortbuilderandsqlassitant.py, call_openai_json from line 233 on: the dict
\* it returns, or which of its two exceptions it raises.
call_openai_json(message) == loads_group(re_search(strip(message)))

\* What the tab shows for the outcome res of call_openai_json, raised being
\* the exception of result["sql"].
assistant_show(res, raised) ==
    IF res.status = "no_match"
        THEN Error("[x] ", "ValueError", "No valid JSON found in response.")
    ELSE IF res.status = "decode_error" THEN Error("[x] ", "JSONDecodeError", "")
    ELSE IF raised # "" THEN Uncaught(raised, "'sql'")
    ELSE Page("Generated SQL Query")

assistant_run(c, res) == Run(c, res, assistant_show(res, subscript_sql(res)))

\* cohortbuilderandsqlassitant.py, the Cohort Builder tab (lines 412-441) and
\* the Open Question tab (lines 495-523), which treat the reply alike.
assistant_generate(message) == assistant_run(strip(message), call_openai_json(message))

cohort_builder_show(res, raised) ==
    IF res.status = "no_match" THEN Error("Failed to find valid JSON in LLM response.", "", "")
    ELSE IF res.status = "decode_error" THEN Error("Failed to parse JSON: ", "JSONDecodeError", "")
    ELSE IF raised # "" THEN Error("Failed to parse JSON: ", raised, "'sql'")
    ELSE Page("Generated SQL Query:")

cohort_builder_run(c, res) == Run(c, res, cohort_builder_show(res, subscript_sql(res)))

cohort_builder_content(c) == cohort_builder_run(c, loads_group(re_search(c)))

\* cohortBuilder_llm_bot_test.py, lines 97-129.
cohort_builder_generate(message) == cohort_builder_content(strip(message))

sql_llm_show(res, raised) ==
    IF res.status = "decode_error" THEN Error("Failed to parse response: ", "JSONDecodeError", "")
    ELSE IF raised # ""
        THEN Error("Failed to parse response: ", raised, IF raised = "KeyError" THEN "'sql'" ELSE "")
    ELSE Page("Generated SQL Query:")

sql_llm_run(c, res) == Run(c, res, sql_llm_show(res, subscript_sql(res)))

sql_llm_content(c) == sql_llm_run(c, loads(json_loads(c)))

\* sql_llm_bot_test.py, lines 54-75: no fence is looked for.
sql_llm_generate(message) == sql_llm_content(strip(message))

FencedVariants == {"assistant", "cohort_builder"}

LLMVariants == FencedVariants \cup {"sql_llm"}

generate(v, message) ==
    CASE v = "assistant"      -> assistant_generate(message)
      [] v = "cohort_builder" -> cohort_builder_generate(message)
      [] v = "sql_llm"        -> sql_llm_generate(message)

(***************************************************************************)
(* The completions of the model: up to MaxSegs segments in any order.      *)
(***************************************************************************)
MaxSegs == 4

SEG_OPEN == "~~~json\n"
SEG_CLOSE == "\n~~~"
SEG_SQL == "{\"sql\": \"SELECT 1\"}"
SEG_NESTED == "{\"sql\": \"SELECT 2\", \"input_tables\": {\"t\": [{\"id\": 1}]}}"
SEG_NO_SQL == "{\"explanation\": \"none\"}"
SEG_BAD == "{\"sql\": SELECT 1}"
SEG_PROSE == "Here is the query:\n"

Segments == {SEG_OPEN, SEG_CLOSE, SEG_SQL, SEG_NESTED, SEG_NO_SQL, SEG_BAD, SEG_PROSE}

Completions == UNION {[1..n -> Segments] : n \in 0..MaxSegs}

RECURSIVE Join(_)
Join(segs) == IF segs = <<>> THEN "" ELSE Head(segs) \o Join(Tail(segs))

\* The user presses the button (sql_llm_bot_test.py: submits a request); the
\* script runs afresh and waits in openai.ChatCompletion.create.
Submit ==
    /\ pc \in {"idle", "done"}
    /\ pc' = "calling"
    /\ completion' = <<>>
    /\ content' = ""
    /\ llm_result' = Nothing
    /\ shown' = Nothing
    /\ UNCHANGED <<variant, script_vars, app_vars, call>>

\* The handler has gone through the completion segs, with the outcome run.
Arrive(segs, run) ==
    /\ pc' = "done"
    /\ completion' = segs
    /\ content' = run.content
    /\ llm_result' = run.result
    /\ shown' = run.shown

\* The completion arrives and the rest of the handler runs.
Complete ==
    /\ pc = "calling"
    /\ \E segs \in Completions : Arrive(segs, generate(variant, Join(segs)))
    /\ UNCHANGED <<variant, script_vars, app_vars, call>>

\* openai.ChatCompletion.create raises: inside the try of the assistant's
\* tabs, outside every try of the two standalone scripts.
CallRaises ==
    /\ pc = "calling"
    /\ pc' = "done"
    /\ shown' = IF variant = "assistant"
                THEN Error("[x] ", "OpenAIError", "")
                ELSE Uncaught("OpenAIError", "")
    /\ UNCHANGED <<variant, completion, content, llm_result, script_vars, app_vars, call>>

\* The script runs again with the button not pressed (sql_llm_bot_test.py:
\* with the request emptied): the page shows no result.
Leave ==
    /\ pc = "done"
    /\ pc' = "idle"
    /\ completion' = <<>>
    /\ content' = ""
    /\ llm_result' = Nothing
    /\ shown' = Nothing
    /\ UNCHANGED <<variant, script_vars, app_vars, call>>

InitLLM ==
    /\ variant \in LLMVariants
    /\ ScriptInit
    /\ LLMIdle
    /\ AppFresh
    /\ call = NoCall

NextLLM == Submit \/ Complete \/ CallRaises \/ Leave

SpecLLM == InitLLM /\ [][NextLLM]_vars

(***************************************************************************)
(* What a completion holds, told from its segments and not from its text.  *)
(* A fenced block is a SEG_OPEN, a segment in braces right after it, and a *)
(* later (or the same) segment in braces that a fence follows; either      *)
(* fence segment will do, both start or end with the three fence marks.    *)
(* The span runs from the first to the second, whatever lies between.      *)
(***************************************************************************)
Objects == {SEG_SQL, SEG_NESTED, SEG_NO_SQL}

Braced == Objects \cup {SEG_BAD}

SqlValue(seg) ==
    CASE seg = SEG_SQL    -> [kind |-> "string", text |-> "SELECT 1"]
      [] seg = SEG_NESTED -> [kind |-> "string", text |-> "SELECT 2"]
      [] OTHER            -> Missing

BlockSpans(segs) ==
    {b \in (1..Len(segs)) \X (1..Len(segs)) :
        /\ b[1] < b[2]
        /\ b[2] < Len(segs)
        /\ segs[b[1]] = SEG_OPEN
        /\ segs[b[1] + 1] \in Braced
        /\ segs[b[2]] \in Braced
        /\ segs[b[2] + 1] \in {SEG_OPEN, SEG_CLOSE}}

\* The span the pattern captures: leftmost start, and from it the shortest.
FirstSpan(segs) ==
    CHOOSE b \in BlockSpans(segs) :
        \A c \in BlockSpans(segs) : b[1] < c[1] \/ (b[1] = c[1] /\ b[2] <= c[2])

\* "object": a fenced block whose content is a JSON object; "broken": a
\* fenced block whose content is not valid JSON; "none": no fenced block.
Fenced(segs) ==
    IF BlockSpans(segs) = {} THEN "none"
    ELSE IF FirstSpan(segs)[2] = FirstSpan(segs)[1] + 1 /\ segs[FirstSpan(segs)[2]] \in Objects
         THEN "object"
    ELSE "broken"

FencedObject(segs) == segs[FirstSpan(segs)[2]]

\* The completion came and the script went through it.
Answered == pc = "done" /\ llm_result # Nothing

\* The three outcomes, as the run of a script shows them.
SucceedsWith(value) ==
    /\ llm_result.status = "parsed"
    /\ llm_result.sql = value
    /\ value # Missing => shown.status = "page"

FailsNoBlock ==
    /\ llm_result.status = "no_match"
    /\ shown.status = "error"
    /\ shown.exception \in {"", "ValueError"}
    /\ Contains(shown.banner \o shown.detail, "valid JSON")

FailsMalformed ==
    /\ llm_result.status = "decode_error"
    /\ shown.status = "error"
    /\ shown.exception = "JSONDecodeError"

ThreeOutcomes ==
    /\ Fenced(completion) = "object" => SucceedsWith(SqlValue(FencedObject(completion)))
    /\ Fenced(completion) = "none" => FailsNoBlock
    /\ Fenced(completion) = "broken" => FailsMalformed

\* C10 as stated: in every LLM variant, a completion with a fenced json block
\* holding a JSON object parses and the bundle's sql is the object's 'sql'
\* value, a completion without a fenced block fails with the "no JSON block"
\* error, and one whose block is not valid JSON fails with another, the
\* "malformed JSON" error.
C10_ParsingAsClaimed == Answered => ThreeOutcomes

\* C10, amended: the three outcomes are those of the two scripts that look for
\* the fence, cohortbuilderandsqlassitant.py and cohortBuilder_llm_bot_test.py.
\* sql_llm_bot_test.py looks for no fence: it parses the whole stripped
\* completion, succeeds exactly when that is a JSON value by itself (with the
\* bundle's sql the object's 'sql' value), and has one error for all the rest,
\* fenced blocks included.
C10_Parsing ==
    /\ Answered /\ variant \in FencedVariants => ThreeOutcomes
    /\ Answered /\ variant = "sql_llm" =>
          /\ llm_result.status # "no_match"
          /\ Len(completion) = 1 /\ completion[1] \in Objects =>
                SucceedsWith(SqlValue(completion[1]))
          /\ ~(Len(completion) = 1 /\ completion[1] \in Objects) =>
                /\ FailsMalformed
                /\ shown.banner = "Failed to parse response: "

\* A completion with prose before its fenced block, parsed by a script that
\* looks for the fence.
C10_Witness ==
    /\ pc = "done"
    /\ variant = "cohort_builder"
    /\ completion = <<SEG_PROSE, SEG_OPEN, SEG_SQL, SEG_CLOSE>>
    /\ llm_result.status = "parsed"
    /\ llm_result.sql.text = "SELECT 1"
    /\ shown.status = "page"

\* A run of the prompt/parse/render pipeline that failed: the call raised,
\* no fenced block, malformed JSON, or a parsed value without the 'sql' key.
PipelineFailed ==
    /\ pc = "done"
    /\ \/ llm_result = Nothing
       \/ llm_result.status \in {"no_match", "decode_error"}
       \/ "sql" \notin llm_result.keys

\* C11: every failure of the pipeline (LLM call error, no fenced JSON block,
\* malformed JSON, parsed object without 'sql') is caught by the handler and
\* ends in a visible error, never in an uncaught exception, in the tabs of
\* the assistant and in the standalone LLM scripts.
C11_AllFailuresCaught == PipelineFailed => shown.status = "error"

\* The preset of the menu that the selectbox holds, 0 for its empty entry.
PresetIndex ==
    IF query_choice = "" THEN 0
    ELSE CHOOSE i \in 1..Len(common_queries) : common_queries[i] = query_choice

\* C15: every entry of the preset menu yields the bundle of its own intent:
\* choosing the i-th preset returns the bundle of reference rule i, never the
\* sentinel and never the bundle of another preset.
C15_PresetsAnswerTheirIntent ==
    PresetIndex # 0 => IsBundleOf(PresetIndex, result)

(***************************************************************************)
(* The Cohort & SQL Assistant, cohortbuilderandsqlassitant.py.             *)
(*                                                                         *)
(* Its schemas: a Python dict is the sequence of its items in insertion    *)
(* order.                                                                  *)
(***************************************************************************)
I2B2_SCHEMA_DESC ==
    "\n- observation_fact: encounter_num, patient_num, concept_cd, start_date"
    \o "\n- patient_dimension: patient_num, birth_date, death_date, sex_cd, race_cd, ethnicity_cd, language_cd, marital_status_cd, zip_cd"
    \o "\n- concept_dimension: concept_cd, name_char"
    \o "\n- visit_dimension: encounter_id, patient_num, start_date, end_date\n"

I2B2_SCHEMA == <<
    [table |-> "patient_dimension",
     columns |-> <<"patient_num", "birth_date", "death_date", "sex_cd", "race_cd",
                   "ethnicity_cd", "language_cd", "marital_status_cd", "zip_cd">>],
    [table |-> "observation_fact",
     columns |-> <<"encounter_num", "patient_num", "concept_cd", "start_date">>],
    [table |-> "concept_dimension", columns |-> <<"concept_cd", "name_char">>],
    [table |-> "visit_dimension",
     columns |-> <<"encounter_id", "patient_num", "start_date", "end_date">>] >>

OMOP_SCHEMA_DESC ==
    "\n- person: person_id, gender_concept_id, year_of_birth, race_concept_id, ethnicity_concept_id"
    \o "\n- visit_occurrence: visit_occurrence_id, person_id, visit_concept_id, visit_start_date, visit_end_date"
    \o "\n- condition_occurrence: condition_occurrence_id, person_id, condition_concept_id, condition_start_date"
    \o "\n- measurement: measurement_id, person_id, measurement_concept_id, measurement_date, value_as_number, unit_concept_id"
    \o "\n- observation: observation_id, person_id, observation_concept_id, observation_date, value_as_string"
    \o "\n- drug_exposure: drug_exposure_id, person_id, drug_concept_id, drug_exposure_start_date, drug_exposure_end_date\n"

OMOP_SCHEMA == <<
    [table |-> "person",
     columns |-> <<"person_id", "gender_concept_id", "year_of_birth", "race_concept_id",
                   "ethnicity_concept_id">>],
    [table |-> "visit_occurrence",
     columns |-> <<"visit_occurrence_id", "person_id", "visit_concept_id", "visit_start_date",
                   "visit_end_date">>],
    [table |-> "condition_occurrence",
     columns |-> <<"condition_occurrence_id", "person_id", "condition_concept_id",
                   "condition_start_date">>],
    [table |-> "measurement",
     columns |-> <<"measurement_id", "person_id", "measurement_concept_id", "measurement_date",
                   "value_as_number", "unit_concept_id">>],
    [table |-> "observation",
     columns |-> <<"observation_id", "person_id", "observation_concept_id", "observation_date",
                   "value_as_string">>],
    [table |-> "drug_exposure",
     columns |-> <<"drug_exposure_id", "person_id", "drug_concept_id",
                   "drug_exposure_start_date", "drug_exposure_end_date">>] >>

\* The options of the radio "Data model".
SchemaOptions == <<"i2b2", "OMOP">>

UnknownSchemaError == [raised |-> "UnknownSchemaError"]

\* The lookup with a third branch that refuses what is neither option.
select_schema_or_raise(choice) ==
    IF choice = "i2b2"
        THEN [schema_description |-> I2B2_SCHEMA_DESC, schema |-> I2B2_SCHEMA]
    ELSE IF choice = "OMOP"
        THEN [schema_description |-> OMOP_SCHEMA_DESC, schema |-> OMOP_SCHEMA]
    ELSE UnknownSchemaError

\* Lines 276-281: schema_description and schema for the value of the radio.
select_schema(choice) ==
    IF choice = "i2b2"
        THEN [schema_description |-> I2B2_SCHEMA_DESC, schema |-> I2B2_SCHEMA]
        ELSE [schema_description |-> OMOP_SCHEMA_DESC, schema |-> OMOP_SCHEMA]

\* list(schema.keys()) and schema[table].
Keys(schema) == [i \in 1..Len(schema) |-> schema[i].table]

ColumnsOf(schema, table) ==
    schema[CHOOSE i \in 1..Len(schema) : schema[i].table = table].columns

\* s[:n]
Prefix(s, n) == IF Len(s) <= n THEN s ELSE SubSeq(s, 1, n)

\* One item of table_configs: table_configs[table] = {"columns": cols, "filter": filter_}.
Config(table, columns, filter) == [table |-> table, columns |-> columns, filter |-> filter]

SummaryEntry(cfg) ==
    [table          |-> cfg.table,
     num_cols       |-> Len(cfg.columns),
     has_filter     |-> cfg.filter # "",
     filter_preview |-> Prefix(cfg.filter, 200)]

\* summarize_table_configs, lines 362-371.  Its `return summary` stands inside
\* the loop: the first pass returns, and with no pass at all the function
\* runs off its end and returns None.  schema is the schema_choice it closes
\* over.
summarize_table_configs(schema, configs) ==
    IF configs = <<>> THEN None
    ELSE [schema |-> schema, tables |-> <<SummaryEntry(configs[1])>>]

(***************************************************************************)
(* Login.  hash_password is SHA-256 in hexadecimal; the digests are those  *)
(* of the passwords of the model.                                          *)
(***************************************************************************)
Passwords == {"secret", "Secret", "pw", ""}

SHA256 ==
    ("secret" :> "2bb80d537b1da3e38bd30361aa855686bde0eacd7162fef6a25fe97bf527a25b")
    @@ ("Secret" :> "7e32a729b1226ed1270f282a8c63054d09b26bc9ec53ea69771ce38158dfade8")
    @@ ("pw" :> "30c952fab122c3f9759f02a6d95c3758b246b4fee239957b2d4fee46e26170c4")
    @@ ("" :> "e3b0c44298fc1c149afbf4c8996fb92427ae41e4649b934ca495991b7852b855")

hash_password(password) == SHA256[password]

\* The rows of users_df that hold the name name and the hash hashed_input.
matching_rows(users_df, name, hashed_input) ==
    Where(users_df, [i \in 1..Len(users_df.data) |->
                        /\ Column(users_df, "Username")[i] = name
                        /\ Column(users_df, "Password")[i] = hashed_input])

\* verify_login with the usernames compared without regard to case and to
\* whitespace around the stored name.
verify_login_folded(name, password, users_df) ==
    IF name = "" \/ password = "" \/ Len(users_df.data) = 0 THEN FALSE
    ELSE \E i \in 1..Len(users_df.data) :
            /\ lower(strip(Column(users_df, "Username")[i])) = lower(name)
            /\ Column(users_df, "Password")[i] = hash_password(password)

\* verify_login, lines 34-42.
verify_login(name, password, users_df) ==
    IF name = "" \/ password = "" \/ Len(users_df.data) = 0 THEN FALSE
    ELSE Len(matching_rows(users_df, name, hash_password(password)).data) # 0

\* The sheet "users" as load_users_from_public_csv returns it: two users
\* stored plainly, one stored with a capital and with blanks around the name.
USERS ==
    DataFrame(<<"Username", "Password">>,
              << <<"alice", SHA256["secret"]>>, <<" Bob ", SHA256["pw"]>>,
                 <<"carol", SHA256["Secret"]>> >>)

NO_USERS == DataFrame(<<"Username", "Password">>, <<>>)

Loaded(users_df) == [raised |-> "", users_df |-> users_df]

LoadRaises(e) == [raised |-> e, users_df |-> NO_USERS]

\* What load_users_from_public_csv comes to: a sheet, or an exception.
Loads ==
    {Loaded(USERS), Loaded(NO_USERS),
     LoadRaises("HTTP Error 404: Not Found"),
     LoadRaises("Sheet must have 'Username' and 'Password' columns.")}

(***************************************************************************)
(* A script run threads a record st through its statements: the session    *)
(* flags, the dedupe set, the trace of what it sent out, the two tabs, and *)
(* whether an uncaught exception has ended the run.  sheet_up tells        *)
(* whether appending to the Google sheet works during this interaction.    *)
(***************************************************************************)
Started(in, name, once, sheet_up) ==
    [logged_in |-> in, username |-> name, once |-> once, sheet_up |-> sheet_up,
     run |-> 0, trace |-> <<>>, tab1 |-> Nothing, tab2 |-> Nothing, aborted |-> FALSE]

Entry(st, op, name, user, details, by) ==
    [op |-> op, name |-> name, user |-> user, details |-> details, by |-> by,
     logged_in |-> st.logged_in, written |-> st.sheet_up, run |-> st.run]

Sent(st, entry) == [st EXCEPT !.trace = Append(@, entry)]

\* register_log, lines 65-76: a row for the tab "logs"; a failure to write
\* is a warning and no more.
register_log(st, user, action) ==
    Sent(st, Entry(st, "register_log", action, strip(user), None, "direct"))

\* register_event, lines 78-89: a row for the tab "events", under the
\* username of the session.
register_event(st, event, details, by) ==
    Sent(st, Entry(st, "register_event", event, strip(st.username), details, by))

\* json.dumps(details, sort_keys=True) of a flat dict of strings.
SortedKeys == <<"schema", "section", "tab">>

RECURSIVE dumps_items(_, _, _)
dumps_items(details, i, sep) ==
    IF i > Len(SortedKeys) THEN ""
    ELSE IF SortedKeys[i] \in DOMAIN details
         THEN sep \o "\"" \o SortedKeys[i] \o "\": \"" \o details[SortedKeys[i]] \o "\""
              \o dumps_items(details, i + 1, ", ")
    ELSE dumps_items(details, i + 1, sep)

json_dumps(details) == "{" \o dumps_items(details, 1, "") \o "}"

Token(event, details) == <<event, json_dumps(details)>>

\* log_once without the dedupe set.
log_every_time(st, event, details) == register_event(st, event, details, "log_once")

\* log_once, lines 95-99.
log_once(st, event, details) ==
    IF Token(event, details) \in st.once THEN st
    ELSE register_event([st EXCEPT !.once = @ \cup {Token(event, details)}],
                        event, details, "log_once")

\* openai.ChatCompletion.create, as the trace shows it.
chat_completion(st, tab) ==
    Sent(st, Entry(st, "chat_completion", "gpt-4", strip(st.username), [tab |-> tab], "direct"))

\* What a chat completion comes to in the assistant: an exception of the
\* call, or a message.
RaisesAPIError == [raised |-> "APIError", message |-> ""]

Replies(message) == [raised |-> "", message |-> message]

Messages == {SEG_OPEN \o SEG_SQL \o SEG_CLOSE, SEG_OPEN \o SEG_NO_SQL \o SEG_CLOSE, SEG_PROSE}

Outcomes == {RaisesAPIError} \cup {Replies(m) : m \in Messages}

\* What a tab of the assistant makes of each message, computed once.
Replied == Tabulated([m \in Messages |-> assistant_generate(m)])

\* The details of the ..._generate_success events, as far as the parsed value
\* of the model keeps them (the two counts of example rows are left out).
success_details(res) ==
    [sql_len         |-> Len(res.sql.text),
     has_explanation |-> "explanation" \in res.keys,
     has_r_query     |-> "r_query" \in res.keys]

(***************************************************************************)
(* The inputs of the functions applied by themselves.                      *)
(***************************************************************************)
\* The most tables a selection holds.
MaxTables == 2

\* Schema identifiers: the two options, and others in their likeness.
SchemaIds == {"i2b2", "OMOP", "omop", "I2B2", "OMOP ", "", "FHIR", "PCORnet"}

\* The column selections of a table: all columns (the default), or all but
\* the first.
ColumnChoices(columns) == {columns, Tail(columns)}

FilterChoices == {"", "sex_cd = 'F'", "birth_date >= '1970-01-01';"}

\* The selections of up to n tables out of the set tables, each at most once.
RECURSIVE Selections(_, _)
Selections(tables, n) ==
    IF n = 0 THEN {<<>>}
    ELSE {<<>>} \cup {<<t>> \o rest : t \in tables, rest \in Selections(tables, n - 1)}

Distinct(sel) == \A i, j \in 1..Len(sel) : sel[i] = sel[j] => i = j

\* The table_configs of a selection: for each table a choice of columns and
\* a filter.
RECURSIVE ConfigsFor(_, _)
ConfigsFor(schema, sel) ==
    IF sel = <<>> THEN {<<>>}
    ELSE {<<Config(Head(sel), c, f)>> \o rest :
             c \in ColumnChoices(ColumnsOf(schema, Head(sel))),
             f \in FilterChoices,
             rest \in ConfigsFor(schema, Tail(sel))}

ConfigsOf(schema, tables, n) ==
    UNION {ConfigsFor(schema, sel) : sel \in {x \in Selections(tables, n) : Distinct(x)}}

TablesOf(schema) == {schema[i].table : i \in 1..Len(schema)}

\* A schema lookup by itself.
LookupSchema ==
    /\ call = NoCall
    /\ \E id \in SchemaIds : call' = [fn |-> "select_schema", arg |-> id, ret |-> select_schema(id)]
    /\ UNCHANGED <<script_vars, llm_vars, app_vars>>

\* A summary by itself.
Summarize ==
    /\ call = NoCall
    /\ \E id \in {SchemaOptions[i] : i \in 1..Len(SchemaOptions)} :
         \E cfgs \in ConfigsOf(select_schema(id).schema, TablesOf(select_schema(id).schema),
                               MaxTables) :
            call' = [fn |-> "summarize_table_configs", arg |-> cfgs,
                     ret |-> summarize_table_configs(id, cfgs)]
    /\ UNCHANGED <<script_vars, llm_vars, app_vars>>

\* The outcome is used and gone.
Return ==
    /\ call # NoCall
    /\ call' = NoCall
    /\ UNCHANGED <<script_vars, llm_vars, app_vars>>

InitPure ==
    /\ variant = "assistant"
    /\ ScriptInit
    /\ LLMIdle
    /\ AppFresh
    /\ call = NoCall

NextPure == LookupSchema \/ Summarize \/ Return

SpecPure == InitPure /\ [][NextPure]_vars

C19_SummaryCoversSelection ==
    call.fn = "summarize_table_configs" =>
        /\ call.ret # None
        /\ Len(call.ret.tables) = Len(call.arg)
        /\ \A i \in 1..Len(call.arg) : call.ret.tables[i].table = call.arg[i].table


(***************************************************************************)
(* The Cohort & SQL Assistant, one script run after another.  A widget's   *)
(* callback runs before the script; the script then runs from its top with *)
(* the widgets as the record w holds them; st.stop() ends a run, and       *)
(* st.rerun() ends it and starts the next.                                 *)
(***************************************************************************)
BeginRun(st) == [st EXCEPT !.run = @ + 1]

\* A callback is the event it registers; None where the widget has none.
Callback(event, details) == [event |-> event, details |-> details]

fire(st, callback) ==
    IF callback = None THEN st
    ELSE register_event(st, callback.event, callback.details, "callback")

\* The on_click of the two buttons, and the on_change of the radio, of the
\* table selection and of the question.
on_login_click == Callback("login_button_clicked", None)

on_logout_click == Callback("logout_button_clicked", None)

on_schema_change(choice) == Callback("schema_changed", [schema |-> choice])

on_tables_change(choice, picked) ==
    Callback("tables_selected", [schema |-> choice, tables |-> picked])

on_user_question_change(choice, val) ==
    Callback("free_text_changed",
             [schema |-> choice, len |-> Len(val), preview |-> Prefix(val, 200)])

\* The inner _cb of make_cols_cb and of make_filter_cb, lines 318-325 and
\* 329-336.
cols_cb(choice, tbl_name, cols) ==
    Callback("table_columns_changed",
             [schema |-> choice, table |-> tbl_name, num_columns |-> Len(cols),
              columns_sample |-> Prefix(cols, 10)])

filter_cb(choice, tbl_name, f) ==
    Callback("table_filter_changed",
             [schema |-> choice, table |-> tbl_name, filter_len |-> Len(f),
              filter_preview |-> Prefix(f, 200)])

\* make_cols_cb and make_filter_cb, lines 317-337: `return _cb` stands inside
\* _cb, so the maker defines _cb, runs off its end and returns None.
make_cols_cb(choice, tbl_name, cols) == None

make_filter_cb(choice, tbl_name, f) == None

\* verify_login as the trace shows it.
verified(st, user, ok) ==
    Sent(st, Entry(st, "verify_login", "verify_login", user, [returned |-> ok], "direct"))

\* Lines 120-128 with the stripped name kept unstripped in the session.
login_checked_unstripped(st, user, ok) ==
    IF ok THEN [register_log(st, user, "login") EXCEPT !.logged_in = TRUE, !.username = user]
    ELSE register_log(st, user, "login_failed")

\* Lines 120-128.
login_checked(st, user, ok) ==
    IF ok THEN [register_log(st, user, "login") EXCEPT !.logged_in = TRUE,
                                                       !.username = strip(user)]
    ELSE register_log(st, user, "login_failed")

\* login_gate, lines 108-128.
login_gate(st, w) ==
    IF ~w.login_clicked THEN st
    ELSE IF w.load.raised # ""
        THEN register_log(st, "", "login_users_load_failed: " \o w.load.raised)
    ELSE login_checked(verified(st, strip(w.login_user),
                                verify_login(strip(w.login_user), w.login_pwd, w.load.users_df)),
                       w.login_user,
                       verify_login(strip(w.login_user), w.login_pwd, w.load.users_df))

SetTab(st, tab, page) ==
    IF tab = 1 THEN [st EXCEPT !.tab1 = page] ELSE [st EXCEPT !.tab2 = page]

\* The else branch, lines 417-441 and 500-523: the success event, then the
\* page, where result["sql"] may raise.
generate_success(st, tab, prefix, run) ==
    [SetTab(register_event(st, prefix \o "_success", success_details(run.result), "direct"),
            tab, run.shown)
        EXCEPT !.aborted = run.shown.status = "uncaught"]

\* The except branch, lines 414-416 and 497-499.
generate_error(st, tab, prefix, raised, page) ==
    SetTab(register_event(st, prefix \o "_error", [error |-> raised], "direct"), tab, page)

generate_parsed(st, tab, prefix, run) ==
    IF run.result.status = "no_match" THEN generate_error(st, tab, prefix, "ValueError", run.shown)
    ELSE IF run.result.status = "decode_error"
        THEN generate_error(st, tab, prefix, "JSONDecodeError", run.shown)
    ELSE generate_success(st, tab, prefix, run)

\* try: result = call_openai_json(prompt), lines 412-441 and 495-523.
generate_in_tab(st, tab, name, prefix, out) ==
    IF out.raised # ""
        THEN generate_error(chat_completion(st, name), tab, prefix, out.raised,
                            Error("[x] ", out.raised, ""))
    ELSE generate_parsed(chat_completion(st, name), tab, prefix, Replied[out.message])

\* with st.expander("How to use"), lines 251-263.
how_to_use(st) == log_once(st, "how_to_view", [section |-> "How to use"])

\* with tab1, lines 299-441.
cohort_builder(st, choice, configs, clicked, out) ==
    IF ~clicked THEN log_once(st, "tab_view", [tab |-> "Cohort Builder", schema |-> choice])
    ELSE generate_in_tab(
            register_event(
                log_once(st, "tab_view", [tab |-> "Cohort Builder", schema |-> choice]),
                "cohort_generate_clicked", summarize_table_configs(choice, configs), "direct"),
            1, "Cohort Builder", "cohort_generate", out)

\* with tab2, lines 444-523: the call is made whenever the question is not
\* empty.
open_question(st, choice, question, out) ==
    IF st.aborted THEN st
    ELSE IF question = ""
        THEN log_once(st, "tab_view", [tab |-> "Open Question to SQL", schema |-> choice])
    ELSE generate_in_tab(
            log_once(st, "tab_view", [tab |-> "Open Question to SQL", schema |-> choice]),
            2, "Open Question to SQL", "free_text_generate", out)

\* with st.expander("Schema fields reference"), lines 526-528.
schema_reference(st, choice) ==
    IF st.aborted THEN st ELSE log_once(st, "schema_reference_view", [schema |-> choice])

\* The script from line 145 to its end.
app_run(st, choice, configs, question, clicked, out1, out2) ==
    schema_reference(
        open_question(
            cohort_builder(how_to_use(st), choice, configs, clicked, out1),
            choice, question, out2),
        choice)

\* The run that st.rerun() of login_gate starts: the app with its widgets
\* new.  Without a login the script stops at line 133.
after_gate(st, w) ==
    IF st.logged_in THEN app_run(BeginRun(st), "i2b2", <<>>, "", FALSE, w.out1, w.out2)
    ELSE st

\* Lines 136-143, the button pressed, and the run of the login page that
\* st.rerun() starts.
logout(st) ==
    BeginRun([register_log(st, st.username, "logout")
                EXCEPT !.logged_in = FALSE, !.username = ""])

\* The script without its st.stop() at line 133.
session_run_ungated(st, w) ==
    IF ~st.logged_in
        THEN app_run(login_gate(BeginRun(st), w), w.choice, w.configs, w.question,
                     w.generate_clicked, w.out1, w.out2)
    ELSE IF w.logout_clicked THEN logout(BeginRun(st))
    ELSE app_run(BeginRun(st), w.choice, w.configs, w.question, w.generate_clicked,
                 w.out1, w.out2)

\* One interaction: the script run, and the run a st.rerun() adds.
session_run(st, w) ==
    IF ~st.logged_in THEN after_gate(login_gate(BeginRun(st), w), w)
    ELSE IF w.logout_clicked THEN logout(BeginRun(st))
    ELSE app_run(BeginRun(st), w.choice, w.configs, w.question, w.generate_clicked,
                 w.out1, w.out2)

(***************************************************************************)
(* The inputs of a session.                                                *)
(***************************************************************************)
\* The most tables a user of the session picks.
MaxPicked == 1

Usernames == {"alice", "Alice", " alice ", "Bob", "carol", ""}

Questions == {"", "count patients by sex"}

\* The tables on offer in a session: the first two of the schema.
Offered(choice) ==
    {Keys(select_schema(choice).schema)[1], Keys(select_schema(choice).schema)[2]}

SessionFilters == {"", "sex_cd = 'F'"}

\* The widgets as the session state holds them, no button pressed.
Rendered ==
    [login_user       |-> login_user,
     login_pwd        |-> login_pwd,
     login_clicked    |-> FALSE,
     load             |-> Loaded(USERS),
     logout_clicked   |-> FALSE,
     choice           |-> schema_choice,
     configs          |-> table_configs,
     question         |-> user_question,
     generate_clicked |-> FALSE,
     out1             |-> RaisesAPIError,
     out2             |-> RaisesAPIError]

\* The session at the start of an interaction.
Session(sheet_up) == Started(logged_in, username, logged_once, sheet_up)

\* The state an interaction leaves: the session flags, the dedupe set, what
\* the runs sent and showed, and the state of the widgets the last run
\* rendered (the state of a widget that was not rendered is dropped).
Finish(st, w) ==
    /\ logged_in' = st.logged_in
    /\ username' = st.username
    /\ logged_once' = st.once
    /\ trace' = st.trace
    /\ tab1' = st.tab1
    /\ tab2' = st.tab2
    /\ login_user' = IF st.logged_in \/ logged_in THEN "" ELSE w.login_user
    /\ login_pwd' = IF st.logged_in \/ logged_in THEN "" ELSE w.login_pwd
    /\ schema_choice' = IF st.logged_in /\ logged_in THEN w.choice ELSE "i2b2"
    /\ table_configs' = IF st.logged_in /\ logged_in THEN w.configs ELSE <<>>
    /\ user_question' = IF st.logged_in /\ logged_in THEN w.question ELSE ""

Interact(st0, w) == Finish(session_run(st0, w), w)

\* The outcomes of the calls a run may make: one per tab that calls.
Tab1Outcomes(clicked) == IF clicked THEN Outcomes ELSE {RaisesAPIError}

Tab2Outcomes(question) == IF question = "" THEN {RaisesAPIError} ELSE Outcomes

\* The user types into the two fields of the login page.
TypeCredentials ==
    /\ ~logged_in
    /\ \E user \in Usernames, pwd \in Passwords :
        /\ <<user, pwd>> # <<login_user, login_pwd>>
        /\ Interact(Session(TRUE), [Rendered EXCEPT !.login_user = user, !.login_pwd = pwd])
        /\ interaction' = [kind |-> "credentials_typed"]
    /\ UNCHANGED <<script_vars, llm_vars, call>>

\* The user presses Login.
ClickLogin ==
    /\ ~logged_in
    /\ \E load \in Loads, sheet_up \in BOOLEAN :
        /\ Interact(fire(Session(sheet_up), on_login_click),
                    [Rendered EXCEPT !.login_clicked = TRUE, !.load = load])
        /\ interaction' = [kind |-> "login_clicked", user |-> login_user, pwd |-> login_pwd,
                           load |-> load]
    /\ UNCHANGED <<script_vars, llm_vars, call>>

\* The user presses Logout.
ClickLogout ==
    /\ logged_in
    /\ \E sheet_up \in BOOLEAN :
        Interact(fire(Session(sheet_up), on_logout_click),
                 [Rendered EXCEPT !.logout_clicked = TRUE])
    /\ interaction' = [kind |-> "logout_clicked"]
    /\ UNCHANGED <<script_vars, llm_vars, call>>

\* The user picks the other data model: the table selection and the
\* question, keyed by the schema, start anew.
ChangeSchema ==
    /\ logged_in
    /\ \E i \in 1..Len(SchemaOptions), sheet_up \in BOOLEAN :
        /\ SchemaOptions[i] # schema_choice
        /\ Interact(fire(Session(sheet_up), on_schema_change(SchemaOptions[i])),
                    [Rendered EXCEPT !.choice = SchemaOptions[i], !.configs = <<>>,
                                     !.question = ""])
    /\ interaction' = [kind |-> "schema_changed"]
    /\ UNCHANGED <<script_vars, llm_vars, call>>

\* The table_configs after the selection has become picked: a table that
\* stays keeps its widgets, a new one has all its columns and no filter.
RECURSIVE Reconfigured(_, _, _)
Reconfigured(choice, configs, picked) ==
    IF picked = <<>> THEN <<>>
    ELSE <<IF \E i \in 1..Len(configs) : configs[i].table = Head(picked)
              THEN configs[CHOOSE i \in 1..Len(configs) : configs[i].table = Head(picked)]
              ELSE Config(Head(picked), ColumnsOf(select_schema(choice).schema, Head(picked)), "")>>
         \o Reconfigured(choice, configs, Tail(picked))

\* The user changes the selection of tables.
SelectTables ==
    /\ logged_in
    /\ \E picked \in {x \in Selections(Offered(schema_choice), MaxPicked) : Distinct(x)},
          out2 \in Tab2Outcomes(user_question), sheet_up \in BOOLEAN :
        /\ picked # Keys(table_configs)
        /\ Interact(fire(Session(sheet_up), on_tables_change(schema_choice, picked)),
                    [Rendered EXCEPT !.configs = Reconfigured(schema_choice, table_configs, picked),
                                     !.out2 = out2])
    /\ interaction' = [kind |-> "tables_selected"]
    /\ UNCHANGED <<script_vars, llm_vars, call>>

\* The user changes the columns of a selected table.
ChangeColumns ==
    /\ logged_in
    /\ \E i \in 1..Len(table_configs), out2 \in Tab2Outcomes(user_question),
          sheet_up \in BOOLEAN :
        \E cols \in ColumnChoices(ColumnsOf(select_schema(schema_choice).schema,
                                            table_configs[i].table)) :
            /\ cols # table_configs[i].columns
            /\ Interact(fire(Session(sheet_up),
                             make_cols_cb(schema_choice, table_configs[i].table, cols)),
                        [Rendered EXCEPT !.configs[i].columns = cols, !.out2 = out2])
            /\ interaction' = [kind |-> "columns_changed", table |-> table_configs[i].table]
    /\ UNCHANGED <<script_vars, llm_vars, call>>

\* The user changes the filter of a selected table.
ChangeFilter ==
    /\ logged_in
    /\ \E i \in 1..Len(table_configs), out2 \in Tab2Outcomes(user_question),
          sheet_up \in BOOLEAN :
        \E f \in SessionFilters :
            /\ f # table_configs[i].filter
            /\ Interact(fire(Session(sheet_up),
                             make_filter_cb(schema_choice, table_configs[i].table, f)),
                        [Rendered EXCEPT !.configs[i].filter = f, !.out2 = out2])
            /\ interaction' = [kind |-> "filter_changed", table |-> table_configs[i].table]
    /\ UNCHANGED <<script_vars, llm_vars, call>>

\* The user presses "Generate & Examples".
ClickGenerate ==
    /\ logged_in
    /\ \E out1 \in Outcomes, out2 \in Tab2Outcomes(user_question), sheet_up \in BOOLEAN :
        Interact(Session(sheet_up),
                 [Rendered EXCEPT !.generate_clicked = TRUE, !.out1 = out1, !.out2 = out2])
    /\ interaction' = [kind |-> "generate_clicked"]
    /\ UNCHANGED <<script_vars, llm_vars, call>>

\* The user enters another question.
AskQuestion ==
    /\ logged_in
    /\ \E q \in Questions, sheet_up \in BOOLEAN :
        /\ q # user_question
        /\ \E out2 \in Tab2Outcomes(q) :
            Interact(fire(Session(sheet_up), on_user_question_change(schema_choice, q)),
                     [Rendered EXCEPT !.question = q, !.out2 = out2])
    /\ interaction' = [kind |-> "question_changed"]
    /\ UNCHANGED <<script_vars, llm_vars, call>>

\* Any other interaction that reruns the script, such as folding an expander.
AppRerun ==
    /\ logged_in
    /\ \E out2 \in Tab2Outcomes(user_question), sheet_up \in BOOLEAN :
        Interact(Session(sheet_up), [Rendered EXCEPT !.out2 = out2])
    /\ interaction' = [kind |-> "rerun"]
    /\ UNCHANGED <<script_vars, llm_vars, call>>

InitApp ==
    /\ variant = "assistant"
    /\ ScriptInit
    /\ LLMIdle
    /\ AppFresh
    /\ call = NoCall

NextApp ==
    \/ TypeCredentials
    \/ ClickLogin
    \/ ClickLogout
    \/ ChangeSchema
    \/ SelectTables
    \/ ChangeColumns
    \/ ChangeFilter
    \/ ClickGenerate
    \/ AskQuestion
    \/ AppRerun

SpecApp == InitApp /\ [][NextApp]_vars


(***************************************************************************)
(* The properties of the session.                                          *)
(***************************************************************************)
\* The last interaction was a press of Login with the user list loaded.
Attempted == interaction.kind = "login_clicked" /\ interaction.load.raised = ""

Stored(i) == interaction.load.users_df.data[i]

SameFolded(stored, submitted) == lower(strip(stored)) = lower(strip(submitted))

\* C13, as the specification has it: a submitted username that differs from a
\* stored Username only by letter case or by whitespace around either of them
\* is accepted when the hash of the submitted password is the stored
\* Password, and the attempt is rejected when the hash differs.
C13_FoldedMatchAccepted ==
    Attempted =>
        /\ (\E i \in 1..Len(interaction.load.users_df.data) :
                /\ SameFolded(Stored(i)[1], interaction.user)
                /\ Stored(i)[2] = hash_password(interaction.pwd)) => logged_in
        /\ (\A i \in 1..Len(interaction.load.users_df.data) :
                SameFolded(Stored(i)[1], interaction.user)
                    => Stored(i)[2] # hash_password(interaction.pwd)) => ~logged_in

\* C13, amended: a login attempt is accepted exactly when the submitted
\* username, stripped of the whitespace around it, and the submitted password
\* are both non-empty and some row of the user list holds that very username,
\* character for character, and the hash of the password; letter case is
\* told apart and the stored name is not stripped.
C13_ExactMatchAccepted ==
    Attempted =>
        (logged_in <=>
            /\ strip(interaction.user) # ""
            /\ interaction.pwd # ""
            /\ \E i \in 1..Len(interaction.load.users_df.data) :
                /\ Stored(i)[1] = strip(interaction.user)
                /\ Stored(i)[2] = hash_password(interaction.pwd))

\* The right password under a name that differs by its capital: rejected.
C13_Witness ==
    /\ Attempted
    /\ interaction.user = "Alice"
    /\ interaction.pwd = "secret"
    /\ interaction.load.users_df = USERS
    /\ ~logged_in

Entries(op) == {k \in DOMAIN trace : trace[k].op = op}

\* C14: whatever the sequence of login attempts, logouts and widget
\* interactions, nothing a run does while logged_in is False is a chat
\* completion, and the only event registered then is the press of the Login
\* button (so no cohort or free-text event); and logged_in turns True only in
\* an interaction where verify_login returned True.
C14_LoginGating ==
    /\ [](\A k \in DOMAIN trace :
            ~trace[k].logged_in =>
                /\ trace[k].op # "chat_completion"
                /\ trace[k].op = "register_event" => trace[k].name = "login_button_clicked")
    /\ [][(logged_in' /\ ~logged_in) =>
            \E k \in DOMAIN trace' :
                /\ trace'[k].op = "verify_login"
                /\ trace'[k].details.returned]_vars

\* A failed attempt to log in, in a session that was used before.
C14_Witness ==
    /\ Attempted
    /\ ~logged_in
    /\ logged_once # {}
    /\ \E k \in Entries("verify_login") : ~trace[k].details.returned

\* C16, as the specification has it: a script run makes at most one chat
\* completion call, and a run in which the user neither pressed Generate nor
\* changed the question makes none.
C16_OneCallPerRun ==
    /\ \A r \in 1..2 :
        Cardinality({k \in Entries("chat_completion") : trace[k].run = r}) <= 1
    /\ interaction.kind \notin {"generate_clicked", "question_changed"}
            => Entries("chat_completion") = {}

\* The username passed verify_login: with some password, against the list.
Passes(name) == \E p \in Passwords : verify_login(name, p, USERS)

\* C17: whenever logged_in is True, username is a non-empty string without
\* whitespace around it that passes verify_login; a failed attempt to log in
\* (wrong credentials, or the user list not loaded) leaves logged_in and
\* username as they were; a logout leaves logged_in False and username empty.
C17_SessionInvariant ==
    /\ [](logged_in => /\ username # ""
                       /\ strip(username) = username
                       /\ Passes(username))
    /\ [](interaction.kind = "logout_clicked" => ~logged_in /\ username = "")
    /\ [][(interaction'.kind = "login_clicked" /\ ~logged_in')
            => logged_in' = logged_in /\ username' = username]_vars

\* A login under a name submitted with blanks around it.
C17_Witness ==
    /\ interaction.kind = "login_clicked"
    /\ interaction.user = " alice "
    /\ logged_in
    /\ username = "alice"

OnceEntries(tr) == {k \in DOMAIN tr : tr[k].by = "log_once"}

\* C18: log_once calls register_event at most once in a session for each
\* pair of event and details: every call it makes is for a pair that was not
\* in the dedupe set and is in it afterwards, no two calls of one interaction
\* are for the same pair, and the set never loses a pair, neither by a logout
\* nor by an event that could not be written; so a later login in the same
\* session logs no one-time event again.
C18_LogOnceAtMostOnce ==
    [][/\ logged_once \subseteq logged_once'
       /\ \A k \in OnceEntries(trace') :
            /\ Token(trace'[k].name, trace'[k].details) \notin logged_once
            /\ Token(trace'[k].name, trace'[k].details) \in logged_once'
       /\ \A j, k \in OnceEntries(trace') :
            Token(trace'[j].name, trace'[j].details) = Token(trace'[k].name, trace'[k].details)
                => j = k]_vars

\* Another login in a session whose one-time events were logged before: the
\* app runs and log_once registers nothing.
C18_Witness ==
    /\ interaction.kind = "login_clicked"
    /\ logged_in
    /\ username = "carol"
    /\ Token("how_to_view", [section |-> "How to use"]) \in logged_once
    /\ OnceEntries(trace) = {}

\* C20, as the specification has it: after the user changes the columns or
\* the filter of a selected table, an event table_columns_changed or
\* table_filter_changed is registered for that table.
C20_ChangeEventsRegistered ==
    interaction.kind \in {"columns_changed", "filter_changed"} =>
        \E k \in Entries("register_event") :
            /\ trace[k].name = (IF interaction.kind = "columns_changed"
                                   THEN "table_columns_changed" ELSE "table_filter_changed")
            /\ trace[k].details.table = interaction.table

====
